---- MODULE Spec2Model ----
(***************************************************************************)
(* TensorFlowHook (syft_tensorflow/hook/hook.py): the install routine that *)
(* rewrites the native tensor type, overloads the framework namespaces and *)
(* the keras Module type, and designates the local worker; and the tensor  *)
(* operations (construction, identity properties, send/get, addition,      *)
(* module relocation) that run on the hooked types.                        *)
(*                                                                         *)
(* Attribute and symbol names are Python strings.  They are kept as        *)
(* sequences of characters so that the tests the hook makes on them        *)
(* ("__" in func, func[0].isupper(), f"native_{func}") are computed.       *)
(***************************************************************************)
EXTENDS Integers, Sequences, FiniteSets, TLC

\* ------------------------------------------------------------------ bounds
MaxHooks == 2
MaxDir == 2

\* ------------------------------------------------------------------- names
Upper == {"A","B","C","D","E","F","G","H","I","J","K","L","M",
          "N","O","P","Q","R","S","T","U","V","W","X","Y","Z"}

Alphabet == <<"A","B","C","D","E","F","G","H","I","J","K","L","M",
              "N","O","P","Q","R","S","T","U","V","W","X","Y","Z",
              "_",
              "a","b","c","d","e","f","g","h","i","j","k","l","m",
              "n","o","p","q","r","s","t","u","v","w","x","y","z">>

Ord(c) == CHOOSE i \in 1..Len(Alphabet) : Alphabet[i] = c

\* str.__lt__ : lexicographic order by code point, the order dir() sorts by
LexLess(a, b) ==
    \E i \in 1..(Len(a) + 1) :
        /\ \A j \in 1..(i - 1) : j <= Len(b) /\ a[j] = b[j]
        /\ \/ i = Len(a) + 1 /\ Len(b) >= i
           \/ i <= Len(a) /\ i <= Len(b) /\ Ord(a[i]) < Ord(b[i])

RECURSIVE sorted(_)
sorted(S) ==
    IF S = {} THEN <<>>
    ELSE LET m == CHOOSE x \in S : \A y \in S \ {x} : LexLess(x, y)
         IN  <<m>> \o sorted(S \ {m})

\* the Python test  sub in s  on strings
Contains(s, sub) ==
    \E i \in 1..(Len(s) - Len(sub) + 1) : SubSeq(s, i, i + Len(sub) - 1) = sub

isupper(c) == c \in Upper

DunderStr == <<"_","_">>
NativePrefix == <<"n","a","t","i","v","e","_">>

\* f"native_{name}"
Native(name) == NativePrefix \o name

\* names on the tensor types
N_init == <<"_","_","i","n","i","t","_","_">>
N_add == <<"_","_","a","d","d","_","_">>
N_hash == <<"_","_","h","a","s","h","_","_">>
N_shape == <<"s","h","a","p","e">>
N_numpy == <<"n","u","m","p","y">>
N_send == <<"s","e","n","d">>
N_get == <<"g","e","t">>
N_send_ == <<"s","e","n","d","_">>
N_get_ == <<"g","e","t","_">>
N_id == <<"i","d">>
N_owner == <<"o","w","n","e","r">>
N_is_wrapper == <<"i","s","_","w","r","a","p","p","e","r">>
N_location == <<"l","o","c","a","t","i","o","n">>
N_id_at_location == <<"i","d","_","a","t","_","l","o","c","a","t","i","o","n">>
N_dim == <<"d","i","m">>

\* names in the framework namespaces
F_add == <<"a","d","d">>
F_constant == <<"c","o","n","s","t","a","n","t">>
F_as_tensor == <<"a","s","_","t","e","n","s","o","r">>
F_alternative_op == <<"a","l","t","e","r","n","a","t","i","v","e","_","o","p">>
F_x__y == <<"x","_","_","y">>
F__sqrt == <<"_","s","q","r","t">>
F___name__ == <<"_","_","n","a","m","e","_","_">>
F_Tensor == <<"T","e","n","s","o","r">>
F_hook == <<"h","o","o","k">>
F_tf_hooked == <<"t","f","_","h","o","o","k","e","d">>

\* ----------------------------------------------------------------- workers
NoWorker == "None"
Me == "me"
Workers == {"me", "alice", "bob"}
SuppliedWorkers == {"alice", "bob"}

\* ------------------------------------------------------------------- state
VARIABLES
    tf_hooked,          \* hasattr(tensorflow, "tf_hooked")
    hooks,              \* the TensorFlowHook instances, in creation order
    tensorflow_hook,    \* tensorflow.hook     (0: not set)
    syft_tensorflow,    \* syft.tensorflow.hook (0: not set)
    syft_local_worker,  \* syft.local_worker
    syft_hook,          \* syft.hook           (0: not set)
    warnings,           \* number of logging.warning calls made
    tensor_type,        \* attribute table of the native Tensor type
    ns,                 \* symbol tables of the configured framework namespaces
    Module              \* attribute table of tensorflow.Module

hookvars == <<tf_hooked, hooks, tensorflow_hook, syft_tensorflow,
              syft_local_worker, syft_hook, warnings, tensor_type, ns, Module>>

\* f with f[k] set to v (setattr)
Put(f, k, v) == [x \in DOMAIN f \cup {k} |-> IF x = k THEN v ELSE f[x]]

NativeImpl(name) == [src |-> "native", name |-> name]
SyftImpl(name) == [src |-> "syft", name |-> name]
HookImpl(name) == [src |-> "hook", name |-> name]

\* what tensorflow.python.framework.ops.Tensor defines before any hooking
NativeTensorAttrs == {N_init, N_hash, N_add, N_shape, N_numpy}

\* dir(TensorFlowTensor), in dir()'s sorted order
SyftDir == <<N_add, N_hash, N_init, N_get, N_send, N_shape>>

\* the exclude list of _add_methods_from_native_tensor
MethodExclude == {
    <<"_","_","c","l","a","s","s","_","_">>,
    <<"_","_","d","e","l","a","t","t","r","_","_">>,
    <<"_","_","d","i","r","_","_">>,
    <<"_","_","d","o","c","_","_">>,
    <<"_","_","d","i","c","t","_","_">>,
    <<"_","_","f","o","r","m","a","t","_","_">>,
    <<"_","_","g","e","t","a","t","t","r","i","b","u","t","e","_","_">>,
    <<"_","_","h","a","s","h","_","_">>,
    <<"_","_","i","n","i","t","_","_">>,
    <<"_","_","i","n","i","t","_","s","u","b","c","l","a","s","s","_","_">>,
    <<"_","_","w","e","a","k","r","e","f","_","_">>,
    <<"_","_","n","e","_","_">>,
    <<"_","_","n","e","w","_","_">>,
    <<"_","_","r","e","d","u","c","e","_","_">>,
    <<"_","_","r","e","d","u","c","e","_","e","x","_","_">>,
    <<"_","_","s","e","t","a","t","t","r","_","_">>,
    <<"_","_","s","i","z","e","o","f","_","_">>,
    <<"_","_","s","u","b","c","l","a","s","s","h","o","o","k","_","_">>,
    <<"_","_","g","t","_","_">>,
    <<"_","_","g","e","_","_">>,
    <<"_","_","l","t","_","_">>,
    <<"_","_","l","e","_","_">> }

\* ------------------------------------------------- hooking the tensor type

\* new___init__ installed over the native constructor, the native one kept
\* as native___init__ unless that alias is already there
add_registration_to___init__(tt) ==
    LET kept == IF Native(N_init) \notin DOMAIN tt
                THEN Put(tt, Native(N_init), tt[N_init])
                ELSE tt
    IN  Put(kept, N_init, HookImpl(N_init))

\* the identity properties, native_shape and dim
hook_properties(tt) ==
    LET t1 == Put(tt, N_location, HookImpl(N_location))
        t2 == Put(t1, N_id_at_location, HookImpl(N_id_at_location))
        t3 == Put(t2, N_id, HookImpl(N_id))
        t4 == Put(t3, N_owner, HookImpl(N_owner))
        t5 == Put(t4, N_is_wrapper, HookImpl(N_is_wrapper))
        t6 == Put(t5, Native(N_shape), t5[N_shape])
    IN  Put(t6, N_dim, HookImpl(N_dim))

\* one pass of the loop body with the two setattr calls swapped
copy_attr_alias_after(tt, attr) ==
    LET copied == Put(tt, attr, SyftImpl(attr))
    IN  IF attr \in DOMAIN tt
        THEN Put(copied, Native(attr), copied[attr])
        ELSE copied

\* one pass of the loop body: alias what exists, then copy the syft method
copy_attr(tt, attr) ==
    LET aliased == IF attr \in DOMAIN tt
                   THEN Put(tt, Native(attr), tt[attr])
                   ELSE tt
    IN  Put(aliased, attr, SyftImpl(attr))

RECURSIVE add_methods_loop(_, _, _)
add_methods_loop(tt, attrs, i) ==
    IF i > Len(attrs) THEN tt
    ELSE add_methods_loop(
            IF attrs[i] \notin MethodExclude THEN copy_attr(tt, attrs[i]) ELSE tt,
            attrs, i + 1)

add_methods_from_native_tensor(tt) == add_methods_loop(tt, SyftDir, 1)

hook_native_tensor(tt) ==
    add_methods_from_native_tensor(hook_properties(add_registration_to___init__(tt)))

\* ------------------------------------------------ hooking the namespaces
Namespaces == {"tensorflow", "tensorflow.math"}

\* syft.tensorflow.exclude
exclude == {F_as_tensor}

FunctionNames == {F_add, F_constant, F_as_tensor, Native(F_add),
                  F_alternative_op, F_x__y, F__sqrt}
OtherNames == {F___name__, F_Tensor}
NamePool == FunctionNames \cup OtherNames

Symbol(name) ==
    [kind |-> IF name \in FunctionNames THEN "function" ELSE "other",
     impl |-> NativeImpl(name)]

SymbolTable(names) == [n \in names |-> Symbol(n)]

\* dir(tensorflow_module): the symbols, and on the framework module itself
\* the hook and tf_hooked attributes __init__ has set by then
Dir(table, module_name) ==
    DOMAIN table \cup
        (IF module_name = "tensorflow" THEN {F_hook, F_tf_hooked} ELSE {})

\* the tests of the loop body with the native_ alias test left out
passes_filters_no_alias_test(table, module_name, func) ==
    /\ func \notin exclude
    /\ ~Contains(func, DunderStr)
    /\ ~isupper(func[1])
    /\ func[1] # "_"

\* the tests of the loop body: TRUE when no continue is taken
passes_filters(table, module_name, func) ==
    /\ func \notin exclude
    /\ ~Contains(func, DunderStr)
    /\ ~isupper(func[1])
    /\ func[1] # "_"
    /\ ~(Contains(func, NativePrefix) \/ Native(func) \in Dir(table, module_name))

\* FrameworkHook._perform_function_overloading: a plain function is kept as
\* native_<name> and replaced by its hooked version
perform_function_overloading(table, func) ==
    IF func \in DOMAIN table /\ table[func].kind = "function"
    THEN Put(Put(table, Native(func), table[func]),
             func, [kind |-> "function", impl |-> HookImpl(func)])
    ELSE table

RECURSIVE hook_module_loop(_, _, _, _)
hook_module_loop(table, module_name, funcs, i) ==
    IF i > Len(funcs) THEN table
    ELSE hook_module_loop(
            IF passes_filters(table, module_name, funcs[i])
            THEN perform_function_overloading(table, funcs[i])
            ELSE table,
            module_name, funcs, i + 1)

hook_tensorflow_module(nsx) ==
    [m \in DOMAIN nsx |->
        hook_module_loop(nsx[m], m, sorted(Dir(nsx[m], m)), 1)]

\* ------------------------------------------------ hooking tensorflow.Module
hook_keras_module(mod) ==
    LET m1 == Put(mod, N_send, HookImpl(N_send_))
        m2 == Put(m1, N_send_, HookImpl(N_send_))
        m3 == Put(m2, N_get_, HookImpl(N_get_))
    IN  Put(m3, N_get, HookImpl(N_get_))

\* ------------------------------------------------------------ the install

\* a guard that never sees the marker
already_hooked_never == FALSE

\* hasattr(tensorflow, "tf_hooked")
already_hooked == tf_hooked

\* the skipped install keeping the worker it was given
skipped_local_worker_kept(local_worker) == local_worker

\* self.local_worker of an install that skips hooking
skipped_local_worker(local_worker) == syft_local_worker

\* TensorFlowHook(tensorflow, local_worker)
TensorFlowHook(local_worker) ==
    /\ Len(hooks) < MaxHooks
    /\ LET self == Len(hooks) + 1 IN
       /\ tensorflow_hook' = self
       /\ syft_tensorflow' = self
       /\ IF already_hooked
          THEN /\ warnings' = warnings + 1
               /\ hooks' = Append(hooks,
                      [arg |-> local_worker,
                       local_worker |-> skipped_local_worker(local_worker)])
               /\ UNCHANGED <<tf_hooked, syft_local_worker, syft_hook,
                              tensor_type, ns, Module>>
          ELSE /\ tf_hooked' = TRUE
               /\ LET lw == IF local_worker = NoWorker THEN Me ELSE local_worker
                  IN  /\ hooks' = Append(hooks,
                             [arg |-> local_worker, local_worker |-> lw])
                      /\ syft_local_worker' = lw
               /\ tensor_type' = hook_native_tensor(tensor_type)
               /\ ns' = hook_tensorflow_module(ns)
               /\ Module' = hook_keras_module(Module)
               /\ syft_hook' = self
               /\ UNCHANGED warnings

\* the process before any install
Pristine ==
    /\ tf_hooked = FALSE
    /\ hooks = <<>>
    /\ tensorflow_hook = 0
    /\ syft_tensorflow = 0
    /\ syft_local_worker = NoWorker
    /\ syft_hook = 0
    /\ warnings = 0
    /\ tensor_type = [n \in NativeTensorAttrs |-> NativeImpl(n)]
    /\ Module = [n \in {N_init} |-> NativeImpl(n)]

\* ------------------------------------------------------- tensors: state
MaxTensors == 3
MaxIds == 4
MaxWeights == 2
MaxBuilt == 2

Objs == 1..MaxTensors
Values == {1, 2}
ExplicitIds == {90}

VARIABLES
    tensors,      \* the tensor objects: identity attributes and child
    objects,      \* each worker's registry: the set of <<id, value>> it holds
    ID_PROVIDER,  \* syft.ID_PROVIDER: how many ids it has handed out
    model,        \* the keras module: whether built, and its weights
    local_value,  \* what each tensor holds when the same program runs with no send
    last          \* the last call made and what it returned or raised

tensorvars == <<tensors, objects, ID_PROVIDER, model, local_value, last>>

vars == <<tf_hooked, hooks, tensorflow_hook, syft_tensorflow,
          syft_local_worker, syft_hook, warnings, tensor_type, ns, Module,
          tensors, objects, ID_PROVIDER, model, local_value, last>>

NoChild == [kind |-> "none", value |-> 0, location |-> NoWorker,
            id_at_location |-> 0, owner |-> NoWorker]

LocalData(v) == [kind |-> "local", value |-> v, location |-> NoWorker,
                 id_at_location |-> 0, owner |-> NoWorker]

Pointer(location, id_at_location, owner) ==
    [kind |-> "pointer", value |-> 0, location |-> location,
     id_at_location |-> id_at_location, owner |-> owner]

NoTensor == [alive |-> FALSE,
             has_syft_id |-> FALSE, syft_id |-> 0,
             has_owner |-> FALSE, owner |-> NoWorker,
             has_is_wrapper |-> FALSE, is_wrapper |-> FALSE,
             child |-> NoChild]

\* a tensor the framework produced without running the hooked constructor
RawTensor(v) == [NoTensor EXCEPT !.alive = TRUE, !.child = LocalData(v)]

NoCall == [op |-> "none", via |-> <<>>, obj |-> 0, a |-> 0, b |-> 0,
           worker |-> NoWorker, id |-> 0, ret |-> 0, flag |-> FALSE,
           returned |-> "nothing", err |-> "none"]

Live == {t \in Objs : tensors[t].alive}
Free == {t \in Objs : ~tensors[t].alive}
NewObj == CHOOSE t \in Free : \A u \in Free : t <= u

\* the hook whose closures the tensor type carries: the one that hooked it
hook_self == hooks[1]

\* a worker's registry lookup
Registered(objs, w, i) == \E p \in objs[w] : p[1] = i
Lookup(objs, w, i) == (CHOOSE p \in objs[w] : p[1] = i)[2]

\* the value a tensor stands for: its local data, or what its Pointer refers to
ResolveIn(tens, objs, t) ==
    IF tens[t].child.kind = "local" THEN tens[t].child.value
    ELSE IF Registered(objs, tens[t].child.location, tens[t].child.id_at_location)
         THEN Lookup(objs, tens[t].child.location, tens[t].child.id_at_location)
         ELSE 0

Resolve(t) == ResolveIn(tensors, objects, t)

\* ------------------------------------------- the identity properties

\* an id getter that never finds the attribute
has_syft_id_never(x) == FALSE

\* hasattr(self, "_syft_id")
has_syft_id(x) == x.has_syft_id

\* the id getter: the tensor afterwards, the provider afterwards, the value
id_get(x, provider) ==
    IF ~has_syft_id(x)
    THEN [x |-> [x EXCEPT !.has_syft_id = TRUE, !.syft_id = provider + 1],
          provider |-> provider + 1, ret |-> provider + 1]
    ELSE [x |-> x, provider |-> provider, ret |-> x.syft_id]

\* the id setter
id_set(x, new_syft_id) == [x EXCEPT !.has_syft_id = TRUE, !.syft_id = new_syft_id]

\* the owner getter
owner_get(x) ==
    IF ~x.has_owner
    THEN [x |-> [x EXCEPT !.has_owner = TRUE, !.owner = hook_self.local_worker],
          ret |-> hook_self.local_worker]
    ELSE [x |-> x, ret |-> x.owner]

\* the is_wrapper getter
is_wrapper_get(x) ==
    IF ~x.has_is_wrapper
    THEN [x |-> [x EXCEPT !.has_is_wrapper = TRUE, !.is_wrapper = FALSE],
          ret |-> FALSE]
    ELSE [x |-> x, ret |-> x.is_wrapper]

\* ------------------------------------------------------ construction

\* syft.generic.tensor.initialize_tensor: is_wrapper is cleared, the id is the
\* one given or a generated one, the owner the one given or the local worker
initialize_tensor(x, provider, owner, id) ==
    LET withid == IF id = 0
                  THEN [x |-> id_set(x, provider + 1), provider |-> provider + 1]
                  ELSE [x |-> id_set(x, id), provider |-> provider]
    IN  [x |-> [withid.x EXCEPT
                   !.has_is_wrapper = TRUE, !.is_wrapper = FALSE,
                   !.has_owner = TRUE,
                   !.owner = IF owner = NoWorker THEN hook_self.local_worker
                             ELSE owner],
         provider |-> withid.provider]

\* new___init__(cls, *args, owner=None, id=None, register=True, **kwargs):
\* the call of initialize_tensor passes id and the arguments, never owner
new___init__(x, provider, owner, id) == initialize_tensor(x, provider, NoWorker, id)

\* ------------------------------------------------ send, get, operations
\* h is the heap an operation works on: the tensors, the registries and the
\* id provider;  the operations return the heap they leave

Heap == [t |-> tensors, o |-> objects, n |-> ID_PROVIDER]

\* send_ that leaves the payload where it was
send_keeps_payload(h, x, w) ==
    [t |-> h.t, o |-> [h.o EXCEPT ![w] = @ \cup {<<h.n + 1, h.t[x].child.value>>}],
     n |-> h.n + 1]

\* send_(destination): the payload is registered at the destination and this
\* object's child becomes a Pointer to it
send_(h, x, w) ==
    LET own == owner_get(h.t[x])
        nid == h.n + 1
    IN  [t |-> [h.t EXCEPT ![x] =
                  [own.x EXCEPT !.child = Pointer(w, nid, own.ret),
                                !.has_is_wrapper = TRUE, !.is_wrapper = TRUE]],
         o |-> [h.o EXCEPT ![w] = @ \cup {<<nid, h.t[x].child.value>>}],
         n |-> nid]

\* get_(): the remote payload is retrieved and replaces the Pointer
get_(h, x) ==
    LET c == h.t[x].child
        v == Lookup(h.o, c.location, c.id_at_location)
    IN  [t |-> [h.t EXCEPT ![x] =
                  [@ EXCEPT !.child = LocalData(v),
                            !.has_is_wrapper = TRUE, !.is_wrapper = FALSE]],
         o |-> [h.o EXCEPT ![c.location] = @ \ {<<c.id_at_location, v>>}],
         n |-> h.n]

\* the framework's own kernels
native_add(x, y) == x + y

RECURSIVE Sum(_)
Sum(s) == IF s = <<>> THEN 0 ELSE Head(s) + Sum(Tail(s))

native_call(weight_values, v) == v + Sum(weight_values)

\* the operands of an operation are all local data
AllLocal(h, xs) == \A x \in xs : h.t[x].child.kind = "local"

\* the operands of an operation are all Pointers to one worker
AllAt(h, xs, w) ==
    \A x \in xs : h.t[x].child.kind = "pointer" /\ h.t[x].child.location = w

\* a dispatch that takes the first operand's location for all of them
collocated_first_only(h, xs, first) == TRUE

\* the operands agree in representation
collocated(h, xs, first) ==
    \/ AllLocal(h, xs)
    \/ AllAt(h, xs, h.t[first].child.location)

\* an operand read from the caller's object without following its Pointer
Operand_payload_only(h, x) == h.t[x].child.value

\* the value an operand contributes where the operation runs
Operand(h, x) == ResolveIn(h.t, h.o, x)

\* a result computed where its operands are: local data when they are local,
\* else registered at their worker and pointed to
result_of(h, first, r, v) ==
    IF h.t[first].child.kind = "local"
    THEN [t |-> [h.t EXCEPT ![r] =
                   [RawTensor(v) EXCEPT !.has_owner = TRUE,
                                        !.owner = owner_get(h.t[first]).ret]],
          o |-> h.o, n |-> h.n]
    ELSE [t |-> [h.t EXCEPT ![r] =
                   [RawTensor(v) EXCEPT
                       !.child = Pointer(h.t[first].child.location, h.n + 1,
                                         owner_get(h.t[first]).ret),
                       !.has_owner = TRUE, !.owner = owner_get(h.t[first]).ret,
                       !.has_is_wrapper = TRUE, !.is_wrapper = TRUE]],
          o |-> [h.o EXCEPT ![h.t[first].child.location] = @ \cup {<<h.n + 1, v>>}],
          n |-> h.n + 1]

\* a + b on two tensors, the result in object r
add(h, a, b, r) ==
    IF collocated(h, {a, b}, a)
    THEN [h |-> result_of(h, a, r, native_add(Operand(h, a), Operand(h, b))),
          ret |-> r, err |-> "none"]
    ELSE [h |-> h, ret |-> 0, err |-> "LocationMismatch"]

\* module(x): the layer applied to a tensor, the result in object r
call(h, weights, x, r) ==
    IF collocated(h, {x} \cup {weights[i] : i \in 1..Len(weights)}, x)
    THEN [h |-> result_of(h, x, r,
                    native_call([i \in 1..Len(weights) |-> Operand(h, weights[i])],
                                Operand(h, x))),
          ret |-> r, err |-> "none"]
    ELSE [h |-> h, ret |-> 0, err |-> "LocationMismatch"]

\* ------------------------------------------------- module send and get

\* the loop of module_send_ stopping before the last weight
RECURSIVE module_send_skips_last(_, _, _, _)
module_send_skips_last(h, weights, i, w) ==
    IF i >= Len(weights) THEN h
    ELSE module_send_skips_last(send_(h, weights[i], w), weights, i + 1, w)

\* for p in nn_self.weights: p.send_(*dest), from the i-th weight on
RECURSIVE module_send_(_, _, _, _)
module_send_(h, weights, i, w) ==
    IF i > Len(weights) THEN h
    ELSE module_send_(send_(h, weights[i], w), weights, i + 1, w)

\* for p in nn_self.weights: p.get_(), from the i-th weight on
RECURSIVE module_get_(_, _, _)
module_get_(h, weights, i) ==
    IF i > Len(weights) THEN h
    ELSE module_get_(get_(h, weights[i]), weights, i + 1)

InitTensors ==
    /\ tensors = [t \in Objs |-> NoTensor]
    /\ objects = [w \in Workers |-> {}]
    /\ ID_PROVIDER = 0
    /\ model = [built |-> FALSE, weights |-> <<>>]
    /\ local_value = [t \in Objs |-> 0]
    /\ last = NoCall

InitHook ==
    /\ Pristine
    /\ InitTensors
    /\ \E names \in SUBSET NamePool :
          /\ Cardinality(names) <= MaxDir
          /\ ns = [m \in Namespaces |->
                     IF m = "tensorflow" THEN SymbolTable(names)
                     ELSE SymbolTable({F_add, F_constant})]

Install ==
    /\ \E local_worker \in SuppliedWorkers \cup {NoWorker} : TensorFlowHook(local_worker)
    /\ UNCHANGED tensorvars

NextHook == Install

SpecHook == InitHook /\ [][NextHook]_vars

\* ------------------------------------------------- the tensor operations
Called(op, obj) == [NoCall EXCEPT !.op = op, !.obj = obj, !.ret = obj, !.returned = "self"]

SetHeap(h) ==
    /\ tensors' = h.t
    /\ objects' = h.o
    /\ ID_PROVIDER' = h.n

\* x = Tensor(v, owner=owner, id=id)
Construct(v, owner, id) ==
    /\ Free # {}
    /\ id = 0 => ID_PROVIDER < MaxIds
    /\ LET r == new___init__(RawTensor(v), ID_PROVIDER, owner, id) IN
       /\ tensors' = [tensors EXCEPT ![NewObj] = r.x]
       /\ ID_PROVIDER' = r.provider
    /\ local_value' = [local_value EXCEPT ![NewObj] = v]
    /\ last' = [Called("init", NewObj) EXCEPT !.a = v, !.worker = owner, !.id = id]
    /\ UNCHANGED <<objects, model>>
    /\ UNCHANGED hookvars

\* x = tf.constant(v): a tensor the framework builds itself
constant(v) ==
    /\ Free # {}
    /\ tensors' = [tensors EXCEPT ![NewObj] = RawTensor(v)]
    /\ local_value' = [local_value EXCEPT ![NewObj] = v]
    /\ last' = [Called("constant", NewObj) EXCEPT !.a = v]
    /\ UNCHANGED <<objects, ID_PROVIDER, model>>
    /\ UNCHANGED hookvars

\* x.id
ReadId(x) ==
    /\ x \in Live
    /\ tensors[x].has_syft_id \/ ID_PROVIDER < MaxIds
    /\ LET r == id_get(tensors[x], ID_PROVIDER) IN
       /\ tensors' = [tensors EXCEPT ![x] = r.x]
       /\ ID_PROVIDER' = r.provider
       /\ last' = [Called("id", x) EXCEPT !.ret = r.ret, !.returned = "value"]
    /\ UNCHANGED <<objects, model, local_value>>
    /\ UNCHANGED hookvars

\* x.id = new_syft_id
SetId(x, new_syft_id) ==
    /\ x \in Live
    /\ tensors' = [tensors EXCEPT ![x] = id_set(tensors[x], new_syft_id)]
    /\ last' = [Called("set_id", x) EXCEPT !.id = new_syft_id]
    /\ UNCHANGED <<objects, ID_PROVIDER, model, local_value>>
    /\ UNCHANGED hookvars

\* x.owner
ReadOwner(x) ==
    /\ x \in Live
    /\ LET r == owner_get(tensors[x]) IN
       /\ tensors' = [tensors EXCEPT ![x] = r.x]
       /\ last' = [Called("owner", x) EXCEPT !.worker = r.ret, !.returned = "value"]
    /\ UNCHANGED <<objects, ID_PROVIDER, model, local_value>>
    /\ UNCHANGED hookvars

\* x.is_wrapper
ReadIsWrapper(x) ==
    /\ x \in Live
    /\ LET r == is_wrapper_get(tensors[x]) IN
       /\ tensors' = [tensors EXCEPT ![x] = r.x]
       /\ last' = [Called("is_wrapper", x) EXCEPT !.flag = r.ret, !.returned = "value"]
    /\ UNCHANGED <<objects, ID_PROVIDER, model, local_value>>
    /\ UNCHANGED hookvars

\* x.send(w)
Send(x, w) ==
    /\ x \in Live
    /\ tensors[x].child.kind = "local"
    /\ w # owner_get(tensors[x]).ret
    /\ ID_PROVIDER < MaxIds
    /\ SetHeap(send_(Heap, x, w))
    /\ last' = [Called("send", x) EXCEPT !.worker = w]
    /\ UNCHANGED <<model, local_value>>
    /\ UNCHANGED hookvars

\* x.get()
Get(x) ==
    /\ x \in Live
    /\ tensors[x].child.kind = "pointer"
    /\ SetHeap(get_(Heap, x))
    /\ last' = Called("get", x)
    /\ UNCHANGED <<model, local_value>>
    /\ UNCHANGED hookvars

\* a + b
Add(a, b) ==
    /\ a \in Live /\ b \in Live
    /\ Free # {}
    /\ ID_PROVIDER < MaxIds
    /\ LET r == add(Heap, a, b, NewObj) IN
       /\ SetHeap(r.h)
       /\ last' = [NoCall EXCEPT !.op = "add", !.a = a, !.b = b,
                                 !.ret = r.ret, !.err = r.err,
                                 !.returned = IF r.err = "none" THEN "result"
                                              ELSE "raised"]
       /\ local_value' =
             IF r.err = "none"
             THEN [local_value EXCEPT
                      ![NewObj] = native_add(local_value[a], local_value[b])]
             ELSE local_value
    /\ UNCHANGED model
    /\ UNCHANGED hookvars

\* the k lowest free objects, in order
RECURSIVE Lowest(_, _)
Lowest(S, k) ==
    IF k = 0 THEN <<>>
    ELSE LET m == CHOOSE t \in S : \A u \in S : t <= u
         IN  <<m>> \o Lowest(S \ {m}, k - 1)

\* a keras layer or model built with the given weight values
BuildModule(weight_values) ==
    /\ ~model.built
    /\ Cardinality(Free) >= Len(weight_values)
    /\ LET ws == Lowest(Free, Len(weight_values)) IN
       /\ model' = [built |-> TRUE, weights |-> ws]
       /\ tensors' = [t \in Objs |->
                        IF \E i \in 1..Len(ws) : ws[i] = t
                        THEN RawTensor(weight_values[CHOOSE i \in 1..Len(ws) : ws[i] = t])
                        ELSE tensors[t]]
       /\ local_value' = [t \in Objs |->
                        IF \E i \in 1..Len(ws) : ws[i] = t
                        THEN weight_values[CHOOSE i \in 1..Len(ws) : ws[i] = t]
                        ELSE local_value[t]]
    /\ last' = [NoCall EXCEPT !.op = "build"]
    /\ UNCHANGED <<objects, ID_PROVIDER>>
    /\ UNCHANGED hookvars

WeightSet == {model.weights[i] : i \in 1..Len(model.weights)}

\* module(x)
Call(x) ==
    /\ model.built
    /\ x \in Live \ WeightSet
    /\ Free # {}
    /\ ID_PROVIDER < MaxIds
    /\ LET r == call(Heap, model.weights, x, NewObj) IN
       /\ SetHeap(r.h)
       /\ last' = [NoCall EXCEPT !.op = "call", !.a = x, !.ret = r.ret, !.err = r.err,
                                 !.returned = IF r.err = "none" THEN "result"
                                              ELSE "raised"]
       /\ local_value' =
             IF r.err = "none"
             THEN [local_value EXCEPT
                      ![NewObj] = native_call(
                          [i \in 1..Len(model.weights) |-> local_value[model.weights[i]]],
                          local_value[x])]
             ELSE local_value
    /\ UNCHANGED model
    /\ UNCHANGED hookvars

\* module.send(w) or module.send_(w), by the name used
ModuleSend(name, w) ==
    /\ model.built
    /\ name \in DOMAIN Module /\ Module[name] = HookImpl(N_send_)
    /\ AllLocal(Heap, WeightSet)
    /\ \A x \in WeightSet : w # owner_get(tensors[x]).ret
    /\ ID_PROVIDER + Len(model.weights) <= MaxIds
    /\ SetHeap(module_send_(Heap, model.weights, 1, w))
    /\ last' = [NoCall EXCEPT !.op = "module_send", !.via = name, !.worker = w,
                              !.returned = "nn_self"]
    /\ UNCHANGED <<model, local_value>>
    /\ UNCHANGED hookvars

\* module.get() or module.get_(), by the name used
ModuleGet(name) ==
    /\ model.built
    /\ name \in DOMAIN Module /\ Module[name] = HookImpl(N_get_)
    /\ \A x \in WeightSet : tensors[x].child.kind = "pointer"
    /\ SetHeap(module_get_(Heap, model.weights, 1))
    /\ last' = [NoCall EXCEPT !.op = "module_get", !.via = name, !.returned = "nn_self"]
    /\ UNCHANGED <<model, local_value>>
    /\ UNCHANGED hookvars

\* the process once TensorFlowHook(tf, local_worker) has run
Hooked(local_worker) ==
    /\ tf_hooked = TRUE
    /\ hooks = <<[arg |-> local_worker,
                  local_worker |-> IF local_worker = NoWorker THEN Me
                                   ELSE local_worker]>>
    /\ tensorflow_hook = 1
    /\ syft_tensorflow = 1
    /\ syft_local_worker = hooks[1].local_worker
    /\ syft_hook = 1
    /\ warnings = 0
    /\ tensor_type = hook_native_tensor([n \in NativeTensorAttrs |-> NativeImpl(n)])
    /\ ns = hook_tensorflow_module(
                [m \in Namespaces |-> SymbolTable({F_add, F_constant})])
    /\ Module = hook_keras_module([n \in {N_init} |-> NativeImpl(n)])

\* after TensorFlowHook(tf), as the tests install it
Init ==
    /\ Hooked(NoWorker)
    /\ InitTensors

\* after TensorFlowHook(tf) or TensorFlowHook(tf, local_worker)
InitIdentity ==
    /\ \E local_worker \in SuppliedWorkers \cup {NoWorker} : Hooked(local_worker)
    /\ InitTensors

\* construction and the identity properties, with relocation
NextIdentity ==
    \/ /\ Cardinality(Live) < MaxBuilt
       /\ \E v \in Values, owner \in Workers \cup {NoWorker}, id \in ExplicitIds \cup {0} :
             Construct(v, owner, id)
    \/ /\ Cardinality(Live) < MaxBuilt
       /\ \E v \in Values : constant(v)
    \/ \E x \in Objs : ReadId(x)
    \/ \E x \in Objs, i \in ExplicitIds : SetId(x, i)
    \/ \E x \in Objs : ReadOwner(x)
    \/ \E x \in Objs : ReadIsWrapper(x)
    \/ \E x \in Objs, w \in Workers : Send(x, w)
    \/ \E x \in Objs : Get(x)

SpecIdentity == InitIdentity /\ [][NextIdentity]_vars

\* relocation and the operations on tensors and modules
Next ==
    \/ \E v \in Values : constant(v)
    \/ \E x \in Objs, w \in Workers : Send(x, w)
    \/ \E x \in Objs : Get(x)
    \/ \E a \in Objs, b \in Objs : Add(a, b)
    \/ \E n \in 0..MaxWeights : \E weight_values \in [1..n -> Values] :
          BuildModule(weight_values)
    \/ \E x \in Objs : Call(x)
    \/ \E name \in {N_send, N_send_}, w \in Workers : ModuleSend(name, w)
    \/ \E name \in {N_get, N_get_} : ModuleGet(name)

Spec == Init /\ [][Next]_vars

\* =================================================== claims on the install

\* C4: an install made when the framework module is already hooked leaves the
\* tensor type's attribute table (its methods and its constructor), the
\* namespaces' symbols and the Module type as they were, logs exactly one
\* warning, and returns a hook instance instead of raising
C4_InstallIdempotent ==
    [][tf_hooked =>
          /\ tensor_type' = tensor_type
          /\ ns' = ns
          /\ Module' = Module
          /\ warnings' = warnings + 1
          /\ Len(hooks') = Len(hooks) + 1]_vars

\* a second install has run and warned
C4_Witness == Len(hooks) = 2 /\ warnings = 1 /\ tf_hooked

\* the worker the first install designates: the one supplied, or "me"
FirstWorker == IF hooks[1].arg = NoWorker THEN Me ELSE hooks[1].arg

\* C5: after any installs, syft.local_worker is the worker the first install
\* was given, or the worker "me" it created, and every hook instance's
\* local_worker is that worker
C5_OneLocalWorker ==
    hooks # <<>> =>
        /\ syft_local_worker = FirstWorker
        /\ \A i \in 1..Len(hooks) : hooks[i].local_worker = syft_local_worker

\* a second install was given a worker other than the designated one
C5_Witness ==
    /\ Len(hooks) = 2
    /\ hooks[2].arg # NoWorker
    /\ hooks[2].arg # hooks[1].local_worker

\* a name of the form __x__
IsDunderName(n) ==
    /\ Len(n) >= 4
    /\ SubSeq(n, 1, 2) = DunderStr
    /\ SubSeq(n, Len(n) - 1, Len(n)) = DunderStr

Replaced(m, n) == ns'[m][n] # ns[m][n]

SyftAttrs == {SyftDir[i] : i \in 1..Len(SyftDir)}

\* every copied attribute is the syft implementation, with the native one,
\* where there was one, kept as native_<name>
CopiedAttrs ==
    \A attr \in SyftAttrs \ MethodExclude :
        /\ attr \in DOMAIN tensor_type
        /\ tensor_type[attr] = SyftImpl(attr)
        /\ attr \in NativeTensorAttrs =>
              /\ Native(attr) \in DOMAIN tensor_type
              /\ tensor_type[Native(attr)] = NativeImpl(attr)

\* C10 as stated: after any installs the attributes outside the exclusion set
\* are the syft implementations with the native ones aliased, and the native
\* type's attributes named in the exclusion set are unchanged
C10_ExcludedUnchanged ==
    tf_hooked =>
        /\ CopiedAttrs
        /\ \A attr \in NativeTensorAttrs \cap MethodExclude :
              tensor_type[attr] = NativeImpl(attr)

\* C10, amended: as stated, except that of the excluded attributes __init__ is
\* replaced by the registering constructor, the native constructor being kept
\* as native___init__
C10_ExcludedButInit ==
    tf_hooked =>
        /\ CopiedAttrs
        /\ \A attr \in (NativeTensorAttrs \cap MethodExclude) \ {N_init} :
              tensor_type[attr] = NativeImpl(attr)
        /\ tensor_type[N_init] = HookImpl(N_init)
        /\ tensor_type[Native(N_init)] = NativeImpl(N_init)

\* two installs have run and native___add__ is still the native addition
C10_Witness ==
    /\ Len(hooks) = 2
    /\ tensor_type[N_add] = SyftImpl(N_add)
    /\ tensor_type[Native(N_add)] = NativeImpl(N_add)


\* ====================================== claims on tensors and modules

ResolveNext(x) == ResolveIn(tensors', objects', x)

\* C1: x.send(w) leaves x holding only a Pointer to w, with w's registry
\* holding the value x had; x.get() returns x holding that value as local
\* data with is_wrapper False; and no step in between changes the value a
\* tensor stands for, so the value after the get is the value before the send
C1_SendGetRoundTrip ==
    [][\A x \in Live :
          /\ ResolveNext(x) = Resolve(x)
          /\ (last'.op = "send" /\ last'.obj = x) =>
                /\ tensors'[x].child.kind = "pointer"
                /\ tensors'[x].child.value = 0
                /\ tensors'[x].child.location = last'.worker
                /\ <<tensors'[x].child.id_at_location, tensors[x].child.value>>
                       \in objects'[last'.worker]
                /\ last'.ret = x
          /\ (last'.op = "get" /\ last'.obj = x) =>
                /\ tensors'[x].child = LocalData(Resolve(x))
                /\ tensors'[x].has_is_wrapper /\ ~tensors'[x].is_wrapper
                /\ last'.ret = x]_vars

\* a tensor was sent and has been got back
C1_Witness ==
    /\ last.op = "get"
    /\ tensors[last.obj].child.kind = "local"
    /\ tensors[last.obj].child.value \in Values
    /\ ID_PROVIDER >= 1

\* C2: every tensor stands for the value the purely local run gives it: the
\* result of an addition or of a module call on Pointers to one worker, once
\* got, is what the same operation gives on the local operands
C2_Transparent ==
    \A x \in Live : Resolve(x) = local_value[x]

\* an operation on Pointers has run at the worker and its result was got
C2_Witness ==
    /\ last.op = "get"
    /\ tensors[last.obj].child.kind = "local"
    /\ tensors[last.obj].child.value \notin Values
    /\ tensors[last.obj].has_owner
    /\ \A x \in Live \ {last.obj} : tensors[x].child.kind = "pointer"

\* C3: module.send(w), under either name, returns the module with every
\* weight holding a Pointer to w at which its value is registered;
\* module.get(), under either name, returns the module with every weight
\* holding as local data the value it was built with
C3_ModuleSendGet ==
    [][/\ last'.op = "module_send" =>
             /\ last'.returned = "nn_self"
             /\ model' = model
             /\ \A i \in 1..Len(model.weights) :
                   LET p == model.weights[i] IN
                   /\ tensors'[p].child.kind = "pointer"
                   /\ tensors'[p].child.location = last'.worker
                   /\ <<tensors'[p].child.id_at_location, tensors[p].child.value>>
                          \in objects'[last'.worker]
       /\ last'.op = "module_get" =>
             /\ last'.returned = "nn_self"
             /\ model' = model
             /\ \A i \in 1..Len(model.weights) :
                   LET p == model.weights[i] IN
                   /\ tensors'[p].child = LocalData(Resolve(p))
                   /\ tensors'[p].child.value = local_value[p]]_vars

\* a module of two weights was sent and got back through the alias get_
C3_Witness ==
    /\ last.op = "module_get"
    /\ last.via = N_get_
    /\ Len(model.weights) = 2
    /\ ID_PROVIDER >= 2

\* one operand holds local data and the other a Pointer, or they hold
\* Pointers to different workers
Mismatch(a, b) ==
    LET ca == tensors[a].child
        cb == tensors[b].child
    IN  \/ ca.kind = "local" /\ cb.kind = "pointer"
        \/ ca.kind = "pointer" /\ cb.kind = "local"
        \/ ca.kind = "pointer" /\ cb.kind = "pointer" /\ ca.location # cb.location

C6_IdStable ==
    [][\A x \in Live :
          /\ (last'.op = "id" /\ last'.obj = x) =>
                /\ tensors'[x].has_syft_id
                /\ last'.ret = tensors'[x].syft_id
                /\ tensors[x].has_syft_id =>
                      /\ last'.ret = tensors[x].syft_id
                      /\ ID_PROVIDER' = ID_PROVIDER
                /\ ~tensors[x].has_syft_id => ID_PROVIDER' = ID_PROVIDER + 1
          /\ (tensors[x].has_syft_id /\ last'.op \in {"id", "send", "get"}) =>
                /\ tensors'[x].has_syft_id
                /\ tensors'[x].syft_id = tensors[x].syft_id]_vars

\* the only tensor had its id read, was sent and got back, and is read again
C6_Witness ==
    /\ last.op = "id"
    /\ Cardinality(Live) = 1
    /\ tensors[last.obj].syft_id = 1
    /\ last.ret = 1
    /\ ID_PROVIDER = 2
    /\ tensors[last.obj].child.kind = "local"
    /\ tensors[last.obj].has_is_wrapper

\* C7 as stated: once Tensor(v, owner=w, id=i) returns, the tensor's owner is
\* w and its id i, or the local worker and a generated id where they were
\* omitted, is_wrapper is False and the value is the one constructed
C7_ConstructorIdentity ==
    last.op = "init" =>
        LET x == tensors[last.obj] IN
        /\ owner_get(x).ret = (IF last.worker = NoWorker THEN hook_self.local_worker
                               ELSE last.worker)
        /\ x.has_syft_id
        /\ x.syft_id = (IF last.id = 0 THEN ID_PROVIDER ELSE last.id)
        /\ is_wrapper_get(x).ret = FALSE
        /\ x.child = LocalData(last.a)


====
